---- MODULE Spec2Model ----
(***************************************************************************)
(* Model of the road-closure impact analyser:                              *)
(*   - runDualPhaseSimulation (utils/simulation.js), the two-phase timed   *)
(*     runner driven by requestAnimationFrame and setTimeout;              *)
(*   - the session state of TrafficClosureUI (TrafficClosure_UI.jsx) that  *)
(*     starts closure and optimization runs and receives their callbacks;  *)
(*   - hashId and computeImpactStats (impact utilities).                   *)
(* Time is counted in ticks of 10 ms, so that the cubic of a duration fits *)
(* the integers of the model checker; progress values are exact rationals. *)
(***************************************************************************)
EXTENDS Integers, Sequences, FiniteSets, TLC

VARIABLES now, runs, ui, selectedOsmIds, call, earlier, panel

vars == <<now, runs, ui, selectedOsmIds, call, earlier, panel>>

\* the session, and the record of calls of computeImpactStats
sessionVars == <<now, runs, ui, selectedOsmIds>>
callVars == <<call, earlier>>

\* ------------------------------------------------------------------------
\* Bounds of the model
\* ------------------------------------------------------------------------
MaxRuns == 2        \* runs of runDualPhaseSimulation started in one behaviour
SmallSteps == 2     \* frames are sampled at elapsed 0..SmallSteps ticks of a phase
FrameLate == 7      \* how late (ticks) a frame may come after a phase's end
TimerSlack == {0, 1} \* how late (ticks) a setTimeout callback may fire

\* ------------------------------------------------------------------------
\* Program constants (ticks of 10 ms)
\* ------------------------------------------------------------------------
baselineDuration == 150
closureDuration == 160
pause == 30
optBaselineDuration == 110
optClosureDuration == 130

NULL == "null"

\* JS strings are sequences of UTF-16 code units: the way ids "41" and "42"
IdA == <<52, 49>>
IdB == <<52, 50>>
OsmIds == {IdA, IdB}

Max(a, b) == IF a >= b THEN a ELSE b
Min(a, b) == IF a <= b THEN a ELSE b

\* greatest common divisor (a function: its arguments are evaluated once)
GCD[a \in Nat, b \in Nat] == IF b = 0 THEN a ELSE GCD[b, a % b]

\* ------------------------------------------------------------------------
\* Rationals: KPI values and progress values
\* ------------------------------------------------------------------------
Rat(n, d) == LET g == GCD[n, d] IN [n |-> n \div g, d |-> d \div g]

RatMul(r, fn, fd) == Rat(r.n * fn, r.d * fd)

\* progress value num/den; within one phase every value has den = duration^3
Prog(num, den) == [num |-> num, den |-> den]
NoProg == Prog(-1, 1)
ProgLeq(p, q) == IF p.den = q.den THEN p.num <= q.num
                 ELSE p.num * q.den <= q.num * p.den
ProgIs(p, k) == p.num = k * p.den

Cube(x) == x * x * x

\* ------------------------------------------------------------------------
\* Mock results of a run (simulation.js 36-62)
\* ------------------------------------------------------------------------
Metrics == {"avgTravelTimeMin", "avgDelayMin", "maxDelayMin", "avgQueueTimeMin",
            "avgSpeedKmh", "vkt", "vht", "pm25", "o3", "no2", "pm10"}

before ==
  [ avgTravelTimeMin |-> Rat(182, 10),
    avgDelayMin      |-> Rat(24, 10),
    maxDelayMin      |-> Rat(91, 10),
    avgQueueTimeMin  |-> Rat(8, 10),
    avgSpeedKmh      |-> Rat(345, 10),
    vkt              |-> Rat(128450, 1),
    vht              |-> Rat(37200, 1),
    pm25             |-> Rat(142, 10),
    o3               |-> Rat(315, 10),
    no2              |-> Rat(263, 10),
    pm10             |-> Rat(220, 10) ]

after ==
  [ avgTravelTimeMin |-> RatMul(before.avgTravelTimeMin, 112, 100),
    avgDelayMin      |-> RatMul(before.avgDelayMin, 155, 100),
    maxDelayMin      |-> RatMul(before.maxDelayMin, 135, 100),
    avgQueueTimeMin  |-> RatMul(before.avgQueueTimeMin, 19, 10),
    avgSpeedKmh      |-> RatMul(before.avgSpeedKmh, 88, 100),
    vkt              |-> RatMul(before.vkt, 97, 100),
    vht              |-> RatMul(before.vht, 118, 100),
    pm25             |-> RatMul(before.pm25, 107, 100),
    o3               |-> RatMul(before.o3, 101, 100),
    no2              |-> RatMul(before.no2, 109, 100),
    pm10             |-> RatMul(before.pm10, 106, 100) ]

\* a held result is a one-element sequence, null is the empty sequence
NoResults == << >>
MockResults(t) == << [before |-> before, after |-> after, generatedAt |-> t] >>

\* the synthetic "optimized" snapshot (TrafficClosure_UI.jsx 563-580)
optimized(baseAfter) ==
  [ avgTravelTimeMin |-> RatMul(baseAfter.avgTravelTimeMin, 953, 1000),
    avgDelayMin      |-> RatMul(baseAfter.avgDelayMin, 893, 1000),
    maxDelayMin      |-> RatMul(baseAfter.maxDelayMin, 933, 1000),
    avgQueueTimeMin  |-> RatMul(baseAfter.avgQueueTimeMin, 920, 1000),
    avgSpeedKmh      |-> RatMul(baseAfter.avgSpeedKmh, 1047, 1000),
    vkt              |-> RatMul(baseAfter.vkt, 1000, 1000),
    vht              |-> RatMul(baseAfter.vht, 947, 1000),
    pm25             |-> RatMul(baseAfter.pm25, 967, 1000),
    o3               |-> RatMul(baseAfter.o3, 993, 1000),
    no2              |-> RatMul(baseAfter.no2, 960, 1000),
    pm10             |-> RatMul(baseAfter.pm10, 1040, 1000) ]

\* ------------------------------------------------------------------------
\* Signed exact arithmetic for the KPI panels: n/d with d > 0, in lowest terms
\* ------------------------------------------------------------------------
Abs(x) == IF x < 0 THEN -x ELSE x
Q(n, d) == LET g == GCD[Abs(n), d] IN [n |-> n \div g, d |-> d \div g]
QNeg(a) == [n |-> -a.n, d |-> a.d]
QAbs(a) == [n |-> Abs(a.n), d |-> a.d]
QSub(a, b) ==
  LET g == GCD[a.d, b.d]
  IN Q(a.n * (b.d \div g) - b.n * (a.d \div g), a.d * (b.d \div g))
QAdd(a, b) == QSub(a, QNeg(b))
QMul(a, b) ==
  LET g1 == GCD[Abs(a.n), b.d]
      g2 == GCD[Abs(b.n), a.d]
  IN [n |-> (a.n \div g1) * (b.n \div g2), d |-> (a.d \div g2) * (b.d \div g1)]
QDiv(a, b) ==
  QMul(a, IF b.n < 0 THEN [n |-> -b.d, d |-> -b.n] ELSE [n |-> b.d, d |-> b.n])
QLess(a, b) ==
  LET g == GCD[a.d, b.d] IN a.n * (b.d \div g) < b.n * (a.d \div g)
QMin(a, b) == IF QLess(b, a) THEN b ELSE a
QMax(a, b) == IF QLess(a, b) THEN b ELSE a

\* ------------------------------------------------------------------------
\* The KPI panels: PostOptimizationResultsPanel (part_002 780-920) and
\* PostClosureAnalysisPanel
\* ------------------------------------------------------------------------
\* METRICS (part_002 783-795); scale 1 stands for no scale function
METRICS ==
  << [key |-> "avgTravelTimeMin", better |-> "lower", scale |-> 1],
     [key |-> "avgDelayMin", better |-> "lower", scale |-> 1],
     [key |-> "maxDelayMin", better |-> "lower", scale |-> 1],
     [key |-> "avgQueueTimeMin", better |-> "lower", scale |-> 1],
     [key |-> "avgSpeedKmh", better |-> "higher", scale |-> 1],
     [key |-> "vkt", better |-> "depends", scale |-> 1000],
     [key |-> "vht", better |-> "lower", scale |-> 3600],
     [key |-> "pm25", better |-> "lower", scale |-> 1],
     [key |-> "o3", better |-> "lower", scale |-> 1],
     [key |-> "no2", better |-> "lower", scale |-> 1],
     [key |-> "pm10", better |-> "lower", scale |-> 1] >>

\* defs (PostClosureAnalysisPanel.jsx 22-32)
defs ==
  << [key |-> "avgTravelTimeMin", better |-> "lower", scale |-> 1],
     [key |-> "avgQueueTimeMin", better |-> "lower", scale |-> 1],
     [key |-> "avgSpeedKmh", better |-> "higher", scale |-> 1],
     [key |-> "vkt", better |-> "depends", scale |-> 1000],
     [key |-> "vht", better |-> "lower", scale |-> 3600],
     [key |-> "pm25", better |-> "lower", scale |-> 1],
     [key |-> "o3", better |-> "lower", scale |-> 1],
     [key |-> "no2", better |-> "lower", scale |-> 1],
     [key |-> "pm10", better |-> "lower", scale |-> 1] >>

\* if (m.scale) { b = m.scale(b); a = m.scale(a) }
scale(m, v) == IF m.scale = 1 THEN v ELSE QDiv(v, Q(m.scale, 1))

\* the percent change with a zero before reported as 100
percent_zeroAsHundred(b, a) ==
  IF b.n = 0 THEN Q(100, 1)
  ELSE QMul(QDiv(QSub(a, b), b), Q(100, 1))
\* ((a - b) / (b === 0 ? 1 : b)) * 100 (part_002 816, PostClosureAnalysisPanel.jsx 37)
percent(b, a) ==
  QMul(QDiv(QSub(a, b), IF b.n = 0 THEN Q(1, 1) ELSE b), Q(100, 1))

NEUTRAL_THRESHOLD_PCT == Q(4, 10)

\* isImproved (part_002 916-920)
isImproved(better, b, a) ==
  IF better = "higher" THEN QLess(b, a)
  ELSE IF better = "lower" THEN QLess(a, b)
  ELSE QLess(QAbs(QSub(a, b)), QAbs(b))

\* worsened without the test !improved
worsened_alsoImproved(pct, improved) ==
  /\ ~QLess(QAbs(pct), NEUTRAL_THRESHOLD_PCT)
  /\ pct.n # 0
\* Math.abs(pct) >= NEUTRAL_THRESHOLD_PCT && !improved && pct !== 0 (819)
worsened(pct, improved) ==
  /\ ~QLess(QAbs(pct), NEUTRAL_THRESHOLD_PCT)
  /\ ~improved
  /\ pct.n # 0

\* one element of METRICS.map (811-821)
optRow(m, beforeOpt, afterOpt) ==
  LET b == scale(m, beforeOpt[m.key])
      a == scale(m, afterOpt[m.key])
      pct == percent(b, a)
      improved == ~QLess(QAbs(pct), NEUTRAL_THRESHOLD_PCT) /\ isImproved(m.better, b, a)
  IN [ key |-> m.key, better |-> m.better, before |-> b, after |-> a,
       delta |-> QSub(a, b), pct |-> pct, improved |-> improved,
       neutral |-> QLess(QAbs(pct), NEUTRAL_THRESHOLD_PCT),
       worsened |-> worsened(pct, improved) ]

\* one element of defs.map (33-39)
closureRow(d, b0, a0) ==
  LET b == scale(d, b0[d.key])
      a == scale(d, a0[d.key])
  IN [ key |-> d.key, better |-> d.better, before |-> b, after |-> a,
       change |-> percent(b, a) ]

\* a score left as computed
clamp_none(x) == x
\* Math.max(0, Math.min(100, score)) (part_002 835, PostClosureAnalysisPanel.jsx 127)
clamp(x) == QMax(Q(0, 1), QMin(Q(100, 1), x))

\* the optimization score with a worsened row weighted like an improved one
optimizationScore_evenWeights(rows) ==
  LET acc[i \in 0..Len(rows)] ==
        IF i = 0 THEN Q(52, 1)
        ELSE LET r == rows[i]
                 magnitude == QMin(Q(12, 1), QAbs(r.pct))
             IN IF r.improved THEN QAdd(acc[i - 1], QMul(magnitude, Q(55, 100)))
                ELSE IF r.worsened THEN QSub(acc[i - 1], QMul(magnitude, Q(55, 100)))
                ELSE IF r.neutral THEN QSub(acc[i - 1], Q(15, 100))
                ELSE acc[i - 1]
  IN clamp(acc[Len(rows)])
\* the optimization score (part_002 828-835)
optimizationScore(rows) ==
  LET acc[i \in 0..Len(rows)] ==
        IF i = 0 THEN Q(52, 1)
        ELSE LET r == rows[i]
                 magnitude == QMin(Q(12, 1), QAbs(r.pct))
             IN IF r.improved THEN QAdd(acc[i - 1], QMul(magnitude, Q(55, 100)))
                ELSE IF r.worsened THEN QSub(acc[i - 1], QMul(magnitude, Q(75, 100)))
                ELSE IF r.neutral THEN QSub(acc[i - 1], Q(15, 100))
                ELSE acc[i - 1]
  IN clamp(acc[Len(rows)])

\* ImpactOverview (PostClosureAnalysisPanel.jsx 118-127)
keys == {"avgTravelTimeMin", "avgSpeedKmh", "vkt", "vht", "pm25", "no2"}
weightMap ==
  [ avgTravelTimeMin |-> Q(24, 100), avgSpeedKmh |-> Q(20, 100), vkt |-> Q(12, 100),
    vht |-> Q(22, 100), pm25 |-> Q(10, 100), no2 |-> Q(12, 100) ]

\* what one selected row adds to score (126): w * (-c.change) for 'higher',
\* w * (c.change * -1) for 'lower', w * (-Math.abs(c.change) * 0.25) otherwise
contribution(c) ==
  LET w == weightMap[c.key]
  IN IF c.better \in {"higher", "lower"}
     THEN QMul(w, QNeg(c.change))
     ELSE QMul(w, QMul(QNeg(QAbs(c.change)), Q(25, 100)))

normalizedScore(rows) ==
  LET selected == SelectSeq(rows, LAMBDA r : r.key \in keys)
      acc[i \in 0..Len(selected)] ==
        IF i = 0 THEN Q(0, 1)
        ELSE QAdd(acc[i - 1], contribution(selected[i]))
  IN IF Len(selected) = 0 THEN << >>
     ELSE << clamp(QAdd(Q(55, 1), acc[Len(selected)])) >>

CountOf(rows, field) == Cardinality({ i \in 1..Len(rows) : rows[i][field] })

\* what a panel shows; no panel is on screen in NoPanel
NoPanel ==
  [ component |-> "none", props |-> << >>, rows |-> << >>, counts |-> << >>,
    score |-> << >> ]

PostClosureAnalysisPanel(results) ==
  LET rows == IF results = NoResults THEN << >>
              ELSE [ i \in 1..Len(defs) |->
                       closureRow(defs[i], results[1].before, results[1].after) ]
  IN [ component |-> "PostClosureAnalysisPanel", props |-> results, rows |-> rows,
       counts |-> << >>, score |-> normalizedScore(rows) ]

\* baseResults is only tested for presence (798)
PostOptimizationResultsPanel(baseResults, optimization) ==
  IF optimization = NoResults \/ baseResults = NoResults
  THEN [ component |-> "PostOptimizationResultsPanel", props |-> optimization,
         rows |-> << >>, counts |-> << >>, score |-> << >> ]
  ELSE LET rows == [ i \in 1..Len(METRICS) |->
                       optRow(METRICS[i], optimization[1].before, optimization[1].after) ]
       IN [ component |-> "PostOptimizationResultsPanel", props |-> optimization,
            rows |-> rows,
            counts |-> << [ improvedCount |-> CountOf(rows, "improved"),
                            worsenedCount |-> CountOf(rows, "worsened"),
                            neutralCount |-> CountOf(rows, "neutral") ] >>,
            score |-> << optimizationScore(rows) >> ]

\* ------------------------------------------------------------------------
\* One invocation of runDualPhaseSimulation: its options, the position of
\* its pending requestAnimationFrame / setTimeout, and the record of the
\* callbacks it has made so far.
\* ------------------------------------------------------------------------
NewRun(kind, bDur, cDur, p, captured) ==
  [ kind |-> kind,                  \* "sim": startSimulation, "opt": startOptimization
    baselineDuration |-> bDur, closureDuration |-> cDur, pause |-> p,
    hasResults |-> TRUE,            \* both callers pass onResults
    captured |-> captured,          \* simulationResults seen by the onResults closure
    name |-> NULL,                  \* runPhase's name
    duration |-> 0,                 \* runPhase's duration
    start |-> 0,                    \* runPhase's start
    pc |-> "new",                   \* "raf" | "timer" | "done"
    due |-> 0,                      \* earliest expiry of the pending setTimeout
    phaseCalls |-> << >>,           \* arguments of onPhaseChange, in order
    progAtPhaseCall |-> << >>,      \* last onProgress argument before each of them
    lastProg |-> NoProg,            \* last onProgress argument
    phaseProg |-> NoProg,           \* the same, since the last onPhaseChange
    resultsCalls |-> 0, resultsInOrder |-> TRUE,
    doneCalls |-> 0, doneInOrder |-> TRUE ]

\* A callback acts on the pair st = [ui, run]: the React state it sets and
\* the run whose record it extends.

\* onPhaseChange: setSimulationPhase (539) / setOptimizationPhase (557)
onPhaseChange(st, name) ==
  [ ui |-> IF st.run.kind = "sim"
           THEN [st.ui EXCEPT !.simulationPhase = name]
           ELSE [st.ui EXCEPT !.optimizationPhase = name],
    run |-> [st.run EXCEPT !.phaseCalls = Append(@, name),
                           !.progAtPhaseCall = Append(@, st.run.lastProg),
                           !.phaseProg = NoProg] ]

\* onProgress: setSimulationProgress (540) / setOptimizationProgress (558)
onProgress(st, prog) ==
  [ ui |-> IF st.run.kind = "sim"
           THEN [st.ui EXCEPT !.simulationProgress = prog]
           ELSE [st.ui EXCEPT !.optimizationProgress = prog],
    run |-> [st.run EXCEPT !.lastProg = prog, !.phaseProg = prog] ]

\* onResults whose optimized snapshot is baseAfter itself, not a copy of it
onResults_aliased(st, res) ==
  [ ui |-> IF st.run.kind = "sim"
           THEN [st.ui EXCEPT !.simulationResults = res]
           ELSE IF st.run.captured = NoResults THEN st.ui
           ELSE [st.ui EXCEPT
                  !.simulationResults =
                    << [st.run.captured[1] EXCEPT
                          !.after = optimized(st.run.captured[1].after)] >>,
                  !.optimizationResults =
                    << [ before |-> optimized(st.run.captured[1].after),
                         after |-> optimized(st.run.captured[1].after),
                         generatedAt |-> res[1].generatedAt ] >>],
    run |-> [st.run EXCEPT
               !.resultsCalls = @ + 1,
               !.resultsInOrder = /\ st.run.name = "closures"
                                  /\ ProgIs(st.run.lastProg, 100)
                                  /\ st.run.doneCalls = 0] ]
\* onResults: (res) => setSimulationResults(res) (541) / the closure of
\* startOptimization (559-582), which reads the simulationResults of the
\* render that created it
onResults(st, res) ==
  [ ui |-> IF st.run.kind = "sim"
           THEN [st.ui EXCEPT !.simulationResults = res]
           ELSE IF st.run.captured = NoResults THEN st.ui
           ELSE [st.ui EXCEPT !.optimizationResults =
                  << [ before |-> st.run.captured[1].after,
                       after |-> optimized(st.run.captured[1].after),
                       generatedAt |-> res[1].generatedAt ] >>],
    run |-> [st.run EXCEPT
               !.resultsCalls = @ + 1,
               !.resultsInOrder = /\ st.run.name = "closures"
                                  /\ ProgIs(st.run.lastProg, 100)
                                  /\ st.run.doneCalls = 0] ]

\* onDone: 542-545 / 583-588
onDone(st) ==
  [ ui |-> IF st.run.kind = "sim"
           THEN [st.ui EXCEPT !.showSimModal = FALSE, !.analysisMode = TRUE]
           ELSE [st.ui EXCEPT !.optimizationPhase = NULL,
                              !.optimizationProgress = Prog(0, 1),
                              !.optimizing = FALSE],
    run |-> [st.run EXCEPT
               !.doneCalls = @ + 1,
               !.doneInOrder = /\ Len(st.run.phaseCalls) > 0
                               /\ st.run.phaseCalls[Len(st.run.phaseCalls)] = NULL
                               /\ ProgIs(st.run.phaseProg, 0),
               \* the run's closures are dead from here on
               !.pc = "done", !.name = NULL, !.duration = 0, !.start = 0, !.due = 0] ]

\* runPhase(name, duration, next): lines 14-16 and 31
runPhase(st, name, duration, t) ==
  LET s1 == onPhaseChange(st, name)
  IN [s1 EXCEPT !.run.name = name, !.run.duration = duration,
                !.run.start = t, !.run.pc = "raf"]

\* stepProg with the floor of line 22 snapping to 5 instead of 3
stepProg_snap5(elapsed, duration) ==
  LET den == Cube(duration)
      rawNum == Min(duration, elapsed)
      prog0 == 100 * (den - Cube(duration - rawNum))
      prog1 == IF prog0 > 0 /\ prog0 < 3 * den THEN 5 * den ELSE prog0
  IN Prog(IF rawNum >= duration THEN 100 * den ELSE prog1, den)

\* the progress value computed by step at elapsed time (lines 18-23)
stepProg(elapsed, duration) ==
  LET den == Cube(duration)
      rawNum == Min(duration, elapsed)            \* raw = rawNum / duration
      eased == den - Cube(duration - rawNum)      \* eased = this / den
      prog0 == 100 * eased
      prog1 == IF prog0 > 0 /\ prog0 < 3 * den THEN 3 * den ELSE prog0
      prog2 == IF rawNum >= duration THEN 100 * den ELSE prog1
  IN Prog(prog2, den)

\* step ending the phase one tick early (raw < 1 tested against elapsed + 1)
step_early(st, t) ==
  LET elapsed == t - st.run.start
      s1 == onProgress(st, stepProg(elapsed, st.run.duration))
  IN IF elapsed + 1 < st.run.duration
     THEN s1
     ELSE [s1 EXCEPT !.run.pc = "timer", !.run.due = t + st.run.pause]

\* step that schedules nothing once raw >= 1 (the else branch of line 27 lost)
step_stall(st, t) ==
  LET elapsed == t - st.run.start
      s1 == onProgress(st, stepProg(elapsed, st.run.duration))
  IN IF elapsed < st.run.duration THEN s1 ELSE [s1 EXCEPT !.run.pc = "stalled"]

\* step: one animation frame of a phase (lines 17-30)
step(st, t) ==
  LET elapsed == t - st.run.start
      s1 == onProgress(st, stepProg(elapsed, st.run.duration))
  IN IF elapsed < st.run.duration
     THEN s1                                                  \* requestAnimationFrame(step)
     ELSE [s1 EXCEPT !.run.pc = "timer", !.run.due = t + st.run.pause]  \* setTimeout(next, pause)

\* the calls of the final callback are made in order from state st; the state
\* after each call is a value computed once, as the code computes it
\* finish calling onResults after onDone
finish_resultsLast(st, t) ==
  LET results(s) == IF s.run.hasResults THEN onResults(s, MockResults(t)) ELSE s
      reset(s) == onProgress(onPhaseChange(s, NULL), Prog(0, 1))
  IN CHOOSE s3 \in { results(s2) : s2 \in { onDone(s1) : s1 \in { reset(st) } } } : TRUE

\* finish calling onDone before the phase and the progress are reset
finish_doneFirst(st, t) ==
  LET results(s) == IF s.run.hasResults THEN onResults(s, MockResults(t)) ELSE s
      reset(s) == onProgress(onPhaseChange(s, NULL), Prog(0, 1))
  IN CHOOSE s3 \in { reset(s2) : s2 \in { onDone(s1) : s1 \in { results(st) } } } : TRUE

\* the callback given to the second runPhase (lines 34-69)
finish(st, t) ==
  LET results(s) == IF s.run.hasResults THEN onResults(s, MockResults(t)) ELSE s
      reset(s) == onProgress(onPhaseChange(s, NULL), Prog(0, 1))
  IN CHOOSE s3 \in { onDone(s2) : s2 \in { reset(s1) : s1 \in { results(st) } } } : TRUE

\* next: the setTimeout callback of a phase (lines 33-34)
next(st, t) ==
  IF st.run.name = "baseline"
  THEN runPhase(st, "closures", st.run.closureDuration, t)
  ELSE finish(st, t)

\* runDualPhaseSimulation(opts): the synchronous part, up to the first
\* requestAnimationFrame (line 33)
runDualPhaseSimulation(st, t) ==
  runPhase(st, "baseline", st.run.baselineDuration, t)

\* ------------------------------------------------------------------------
\* Impact utilities: hashId and computeImpactStats
\* ------------------------------------------------------------------------
\* String.prototype.toLowerCase on ASCII and Latin-1 letters
toLowerCase(s) ==
  [ i \in 1..Len(s) |->
      IF \/ (s[i] >= 65 /\ s[i] <= 90)
         \/ (s[i] >= 192 /\ s[i] <= 222 /\ s[i] # 215)
      THEN s[i] + 32 ELSE s[i] ]

\* String.prototype.trim: white space and line terminators at both ends
WhiteSpace == {9, 10, 11, 12, 13, 32, 160}
RECURSIVE trimStart(_)
trimStart(s) == IF s # << >> /\ Head(s) \in WhiteSpace THEN trimStart(Tail(s)) ELSE s
RECURSIVE trimEnd(_)
trimEnd(s) == IF s # << >> /\ s[Len(s)] \in WhiteSpace
              THEN trimEnd(SubSeq(s, 1, Len(s) - 1)) ELSE s
trim(s) == trimEnd(trimStart(s))

\* a null name is the empty sequence: (s || '') maps null and '' alike
NoName == << >>
norm(s) == trim(toLowerCase(s))

\* hashId: h = (31 * h + code) wrapped to 32 bits at each step, read unsigned
\* at the end; the 32 bits are kept as two 16-bit halves
hashId(id) ==
  LET h[i \in 0..Len(id)] ==
        IF i = 0 THEN [hi |-> 0, lo |-> 0]
        ELSE LET lo == 31 * h[i - 1].lo + id[i]
             IN [hi |-> (31 * h[i - 1].hi + lo \div 65536) % 65536,
                 lo |-> lo % 65536]
  IN h[Len(id)]

\* (h % 400) - 200 for h = hi * 65536 + lo
fluctOf(h) == (((h.hi % 400) * (65536 % 400) + h.lo) % 400) - 200

baseByType ==
  [ motorway |-> 1800, trunk |-> 1500, primary |-> 1200, secondary |-> 800,
    tertiary |-> 500, residential |-> 250, service |-> 120 ]

\* baseByType[highway] || 300
baseOf(highway) == IF highway \in DOMAIN baseByType THEN baseByType[highway] ELSE 300

forceExtremeNames ==
  { <<109, 252, 110, 115, 116, 101, 114, 98, 114, 252, 99, 107, 101>>,
    <<114, 97, 116, 104, 97, 117, 115, 98, 114, 252, 99, 107, 101>>,
    <<114, 117, 100, 111, 108, 102, 45, 98, 114, 117, 110, 45, 98, 114, 252, 99, 107, 101>>,
    <<109, 252, 104, 108, 101, 115, 116, 101, 103>> }

\* x | 0 for a rational 0 <= x < 2^31: the fraction is dropped
ToInt32(r) == Rat(r.n \div r.d, 1)
\* Math.max(40, x)
AtLeast40(r) == IF r.n < 40 * r.d THEN Rat(40, 1) ELSE r

\* Math.max(40, base + fluct * 0.5 | 0)
nameVehicles(base, fluct) == AtLeast40(ToInt32(Rat(2 * base + fluct, 2)))
\* base + fluct * 0.6 | 0, the floor of 40 left out
idVehicles_unfloored(base, fluct) == ToInt32(Rat(5 * base + 3 * fluct, 5))
\* Math.max(40, base + fluct * 0.6 | 0)
idVehicles(base, fluct) == AtLeast40(ToInt32(Rat(5 * base + 3 * fluct, 5)))

\* nameSeedCache, a Map from normalized names to vehicles per hour
\* a cache that never reports a hit
nameSeedCacheHas_never(cache, n) == FALSE
nameSeedCacheHas(cache, n) == n \in DOMAIN cache
nameSeedCacheSet(cache, n, v) ==
  [ x \in DOMAIN cache \cup {n} |-> IF x = n THEN v ELSE cache[x] ]

\* find falling back on the first way of the catalog
find_orFirst(features, id) ==
  IF \E i \in 1..Len(features) : features[i].osm_id = id
  THEN CHOOSE i \in 1..Len(features) :
         /\ features[i].osm_id = id
         /\ \A j \in 1..(i - 1) : features[j].osm_id # id
  ELSE 1
\* geojson.features.find(f => f.properties.osm_id === id): its index, 0 if none
find(features, id) ==
  IF \E i \in 1..Len(features) : features[i].osm_id = id
  THEN CHOOSE i \in 1..Len(features) :
         /\ features[i].osm_id = id
         /\ \A j \in 1..(i - 1) : features[j].osm_id # id
  ELSE 0

\* the locals of a call (67-69); left is what the call before left in its own
\* locals that outlive the call
NoLocals == [rows |-> << >>, totalKm |-> 0, nameSeedCache |-> << >>]
Locals_kept(left) == left
Locals(left) == NoLocals

\* the body of the forEach (71-95) for one selected id; lengths are in metres
forEachId(features, loc, id) ==
  LET k == find(features, id)
      feat == features[k]
      n == norm(feat.name)
      base == baseOf(feat.highway)
      hit == nameSeedCacheHas(loc.nameSeedCache, n)
      vehiclesPerHour ==
        IF n # << >>
        THEN IF ~hit THEN nameVehicles(base, fluctOf(hashId(n)))
             ELSE loc.nameSeedCache[n]
        ELSE idVehicles(base, fluctOf(hashId(id)))
  IN IF k = 0 THEN loc
     ELSE [ rows |-> Append(loc.rows,
                       [id |-> id, name |-> feat.name, highway |-> feat.highway,
                        length_km |-> feat.length_km,
                        vehiclesPerHour |-> vehiclesPerHour]),
            totalKm |-> loc.totalKm + feat.length_km,
            nameSeedCache |->
              IF n # << >> /\ ~hit
              THEN nameSeedCacheSet(loc.nameSeedCache, n, vehiclesPerHour)
              ELSE loc.nameSeedCache ]

\* ------------------------------------------------------------------------
\* Exact comparison of an impact score with a threshold.
\* impactScore = v^0.9 * share^0.65 * len with share = sn/sd and len = ln/ld,
\* so impactScore < T  iff  v^18 * sn^13 * ln^20 < T^20 * sd^13 * ld^20.
\* Large naturals are sequences of base-10000 digits, lowest first.
\* ------------------------------------------------------------------------
RECURSIVE MulCarry(_, _, _, _)
MulCarry(a, k, i, carry) ==
  IF i > Len(a)
  THEN IF carry = 0 THEN << >>
       ELSE <<carry % 10000>> \o MulCarry(a, k, i, carry \div 10000)
  ELSE LET v == a[i] * k + carry
       IN <<v % 10000>> \o MulCarry(a, k, i + 1, v \div 10000)

\* a * k for a small factor k (below 200000)
MulSmall(a, k) == MulCarry(a, k, 1, 0)

\* a * k^n
RECURSIVE MulPow(_, _, _)
MulPow(a, k, n) ==
  IF n = 0 THEN a
  ELSE CHOOSE z \in { MulPow(b, k, n - 1) : b \in { MulSmall(a, k) } } : TRUE

RECURSIVE LessFrom(_, _, _)
LessFrom(a, b, i) ==
  IF i = 0 THEN FALSE
  ELSE IF a[i] # b[i] THEN a[i] < b[i] ELSE LessFrom(a, b, i - 1)

BigLess(a, b) == IF Len(a) # Len(b) THEN Len(a) < Len(b) ELSE LessFrom(a, b, Len(a))

\* Math.pow(v, 0.9) * Math.pow(share, 0.65) * (1 + len * 1.8), kept exact
Score(v, share, len) == [v |-> v, share |-> share, len |-> len]

ScoreNum(s) == MulPow(MulPow(MulPow(<<1>>, s.v, 18), s.share.n, 13), s.len.n, 20)
ScoreDen(s) == MulPow(MulPow(<<1>>, s.share.d, 13), s.len.d, 20)

\* the ladder with its two lowest labels exchanged
categoryOfScore_swapped(s) ==
  LET num == ScoreNum(s)
      den == ScoreDen(s)
      below(T) == BigLess(num, MulPow(den, T, 20))
  IN IF below(130) THEN "low"
     ELSE IF below(300) THEN "non-impactful"
     ELSE IF below(680) THEN "impactful"
     ELSE IF below(1250) THEN "very"
     ELSE "extreme"
\* the ladder of thresholds (105-109)
categoryOfScore(s) ==
  LET num == ScoreNum(s)
      den == ScoreDen(s)
      below(T) == BigLess(num, MulPow(den, T, 20))
  IN IF below(130) THEN "non-impactful"
     ELSE IF below(300) THEN "low"
     ELSE IF below(680) THEN "impactful"
     ELSE IF below(1250) THEN "very"
     ELSE "extreme"

\* categoryOf with the footway rule applied before the landmark test
categoryOf_footwayFirst(r, impactScore) ==
  LET c0 == IF r.highway = "footway" THEN "non-impactful"
            ELSE categoryOfScore(impactScore)
      c1 == IF toLowerCase(r.name) \in forceExtremeNames THEN "extreme" ELSE c0
      c3 == IF r.highway = "residential" /\ c1 = "non-impactful" THEN "low" ELSE c1
  IN IF r.highway = "tertiary" /\ c3 \in {"non-impactful", "low"}
     THEN "impactful" ELSE c3
\* categoryOf with the residential bump applied to every class
categoryOf_bumpAll(r, impactScore) ==
  LET c1 == IF toLowerCase(r.name) \in forceExtremeNames THEN "extreme"
            ELSE categoryOfScore(impactScore)
      c2 == IF r.highway = "footway" THEN "non-impactful" ELSE c1
      c3 == IF c2 = "non-impactful" THEN "low" ELSE c2
  IN IF r.highway = "tertiary" /\ c3 \in {"non-impactful", "low"}
     THEN "impactful" ELSE c3
\* the category of a row (102-113)
categoryOf(r, impactScore) ==
  LET c1 == IF toLowerCase(r.name) \in forceExtremeNames THEN "extreme"
            ELSE categoryOfScore(impactScore)
      c2 == IF r.highway = "footway" THEN "non-impactful" ELSE c1
      c3 == IF r.highway = "residential" /\ c2 = "non-impactful" THEN "low" ELSE c2
  IN IF r.highway = "tertiary" /\ c3 \in {"non-impactful", "low"}
     THEN "impactful" ELSE c3

RECURSIVE SumVehicles(_, _)
SumVehicles(rows, i) ==
  IF i = 0 THEN 0 ELSE SumVehicles(rows, i - 1) + rows[i].vehiclesPerHour.n

\* rows.forEach (96-116); areaVehicles = sumVehicles * 1.35 + 500
enrich(rows) ==
  LET sumVehicles == SumVehicles(rows, Len(rows))
      areaVehicles == Rat(27 * sumVehicles + 10000, 20)
  IN [ i \in 1..Len(rows) |->
         LET r == rows[i]
             share == Rat(r.vehiclesPerHour.n * areaVehicles.d, areaVehicles.n)
             len == Rat(5000 + 9 * r.length_km, 5000)
             impactScore == Score(r.vehiclesPerHour.n, share, len)
         IN [ id |-> r.id, name |-> r.name, highway |-> r.highway,
              length_km |-> r.length_km, vehiclesPerHour |-> r.vehiclesPerHour,
              share |-> share, category |-> categoryOf(r, impactScore),
              impactScore |-> impactScore ] ]

\* rows.reduce (117): a count for each category that occurs
distributionOf(rows) ==
  [ c \in { rows[i].category : i \in 1..Len(rows) } |->
      Cardinality({ i \in 1..Len(rows) : rows[i].category = c }) ]

\* a null catalog or result is the empty sequence, an object a one-element one
NoGeoJSON == << >>
NoStats == << >>
GeoJSON(features) == << [features |-> features] >>
\* likewise an absent selection, and a Set holding ids in insertion order
NoSelection == << >>
SetOf(ids) == << ids >>

\* the guard of line 66, returning null also when no selected id is found
returnsNull_noRows(geojson, selectedIds) ==
  \/ geojson = NoGeoJSON
  \/ selectedIds = NoSelection
  \/ \A i \in 1..Len(selectedIds[1]) : find(geojson[1].features, selectedIds[1][i]) = 0
\* !geojson || !selectedIds || !selectedIds.size (66)
returnsNull(geojson, selectedIds) ==
  \/ geojson = NoGeoJSON
  \/ selectedIds = NoSelection
  \/ Len(selectedIds[1]) = 0

\* computeImpactStats (65-119): the returned summary and the locals at return
computeImpactStats(geojson, selectedIds, left) ==
  IF returnsNull(geojson, selectedIds)
  THEN [stats |-> NoStats, scope |-> NoLocals]
  ELSE LET ids == selectedIds[1]
           acc[i \in 0..Len(ids)] ==
             IF i = 0 THEN Locals(left)
             ELSE forEachId(geojson[1].features, acc[i - 1], ids[i])
           loc == acc[Len(ids)]
           rows == enrich(loc.rows)
           sumVehicles == SumVehicles(loc.rows, Len(loc.rows))
       IN [ stats |-> << [ totalKm |-> loc.totalKm,
                           areaVehicles |-> (27 * sumVehicles + 10000 + 10) \div 20,
                           rows |-> rows,
                           distribution |-> distributionOf(rows) ] >>,
            scope |-> loc ]

\* the catalogs the calls are made with (lengths in metres)
Quai == <<81, 117, 97, 105>>
QuaiIndented == <<32, 113, 117, 97, 105>>
Muehlesteg == <<77, 252, 104, 108, 101, 115, 116, 101, 103>>
MuehlestegPadded == <<77, 252, 104, 108, 101, 115, 116, 101, 103, 32>>
Feature(id, highway, name, metres) ==
  [osm_id |-> id, highway |-> highway, name |-> name, length_km |-> metres]

Catalogs ==
  { GeoJSON(<< Feature(IdA, "primary", Quai, 1200),
               Feature(IdB, "service", QuaiIndented, 300) >>),
    GeoJSON(<< Feature(IdA, "footway", Muehlesteg, 80),
               Feature(IdB, "tertiary", MuehlestegPadded, 150) >>),
    GeoJSON(<< Feature(IdA, "service", NoName, 60) >>),
    GeoJSON(<< Feature(IdA, "motorway", Quai, 9000),
               Feature(IdB, "residential", NoName, 500) >>) }

\* before any call: nothing loaded, nothing selected, no summary
FirstCall ==
  [ geojson |-> NoGeoJSON, selectedIds |-> SetOf(<< >>), stats |-> NoStats,
    scope |-> NoLocals ]
NoEarlier == << >>

\* ------------------------------------------------------------------------
\* Session state of TrafficClosureUI (TrafficClosure_UI.jsx 67-79)
\* ------------------------------------------------------------------------
InitUi ==
  [ showSimModal |-> FALSE,
    simulationPhase |-> NULL,
    simulationProgress |-> Prog(0, 1),
    analysisMode |-> FALSE,
    simulationResults |-> NoResults,
    optimizing |-> FALSE,
    optimizationPhase |-> NULL,
    optimizationProgress |-> Prog(0, 1),
    optimizationResults |-> NoResults ]

\* selectedOsmIds is a JS Set: its elements in insertion order
Has(seq, x) == \E i \in 1..Len(seq) : seq[i] = x
Delete(seq, x) == SelectSeq(seq, LAMBDA y : y # x)
Toggle(seq, x) == IF Has(seq, x) THEN Delete(seq, x) ELSE Append(seq, x)

Init ==
  /\ now = 0
  /\ runs = << >>
  /\ ui = InitUi
  /\ selectedOsmIds = << >>
  /\ call = FirstCall
  /\ earlier = NoEarlier
  /\ panel = NoPanel

\* what the render shows (the handlers below exist only while shown)
\* the simulation modal (767-776) and the optimization overlay (835-839) are
\* full-screen overlays covering sidebar and map
Covered == ui.showSimModal \/ ui.optimizing
SelectionSidebarRendered == ~ui.analysisMode
StartButtonRendered == ui.showSimModal /\ ui.simulationPhase = NULL
\* the closure panel shown next to the optimization panel
AnalysisPanelRendered_withOptimization == ui.analysisMode
AnalysisPanelRendered == ui.analysisMode /\ ui.optimizationResults = NoResults
OptimizationPanelRendered == ui.analysisMode /\ ui.optimizationResults # NoResults

\* onRoadClick without the return of line 397
onRoadClick_always(id) ==
  /\ ~Covered
  /\ selectedOsmIds' = Toggle(selectedOsmIds, id)
  /\ UNCHANGED <<now, runs, ui, callVars, panel>>
\* onRoadClick (396-404): the map reports the clicked way
onRoadClick(id) ==
  /\ ~Covered
  /\ ~ui.analysisMode
  /\ selectedOsmIds' = Toggle(selectedOsmIds, id)
  /\ UNCHANGED <<now, runs, ui, callVars, panel>>

\* the X button of a list row (634)
RemoveRow(id) ==
  /\ ~Covered
  /\ SelectionSidebarRendered
  /\ Has(selectedOsmIds, id)
  /\ selectedOsmIds' = Delete(selectedOsmIds, id)
  /\ UNCHANGED <<now, runs, ui, callVars, panel>>

\* the Clear button (607)
Clear ==
  /\ ~Covered
  /\ SelectionSidebarRendered
  /\ Len(selectedOsmIds) > 0
  /\ selectedOsmIds' = << >>
  /\ UNCHANGED <<now, runs, ui, callVars, panel>>

\* the ANALYZE TRAFFIC button (702-704)
AnalyzeTraffic ==
  /\ ~Covered
  /\ SelectionSidebarRendered
  /\ Len(selectedOsmIds) > 0
  /\ ui' = [ui EXCEPT !.showSimModal = TRUE]
  /\ UNCHANGED <<now, runs, selectedOsmIds, callVars, panel>>

\* closing the modal: backdrop (779), the x (783-788), Cancel (820-822)
CloseSimModal ==
  /\ ui.showSimModal
  /\ ui.simulationPhase = NULL
  /\ ui' = [ui EXCEPT !.showSimModal = FALSE]
  /\ UNCHANGED <<now, runs, selectedOsmIds, callVars, panel>>

\* startSimulation (536-547)
startSimulation ==
  /\ Len(selectedOsmIds) > 0
  /\ Len(runs) < MaxRuns
  /\ LET run == NewRun("sim", baselineDuration, closureDuration, pause, NoResults)
         st == runDualPhaseSimulation([ui |-> ui, run |-> run], now)
     IN /\ ui' = st.ui
        /\ runs' = Append(runs, st.run)
  /\ UNCHANGED <<now, selectedOsmIds, callVars, panel>>

\* the Start simulation button (823) calls startSimulation
ClickStartSimulation ==
  /\ StartButtonRendered
  /\ startSimulation

\* startOptimization without the return of line 551
startOptimization_unguarded ==
  /\ Len(runs) < MaxRuns
  /\ LET ui1 == [ui EXCEPT !.optimizing = TRUE, !.optimizationResults = NoResults]
         run == NewRun("opt", optBaselineDuration, optClosureDuration, pause,
                       ui.simulationResults)
         st == runDualPhaseSimulation([ui |-> ui1, run |-> run], now)
     IN /\ ui' = st.ui
        /\ runs' = Append(runs, st.run)
  /\ UNCHANGED <<now, selectedOsmIds, callVars, panel>>

\* startOptimization (550-590); a call while optimizing returns at once
startOptimization ==
  /\ ~ui.optimizing
  /\ Len(runs) < MaxRuns
  /\ LET ui1 == [ui EXCEPT !.optimizing = TRUE, !.optimizationResults = NoResults]
         run == NewRun("opt", optBaselineDuration, optClosureDuration, pause,
                       ui.simulationResults)
         st == runDualPhaseSimulation([ui |-> ui1, run |-> run], now)
     IN /\ ui' = st.ui
        /\ runs' = Append(runs, st.run)
  /\ UNCHANGED <<now, selectedOsmIds, callVars, panel>>

\* the Optimize button (PostClosureAnalysisPanel.jsx 97), disabled while
\* optimizing
ClickOptimize ==
  /\ ~Covered
  /\ AnalysisPanelRendered
  /\ startOptimization

\* Modify Selection (TrafficClosure_UI.jsx 729, PostClosureAnalysisPanel.jsx 96)
onBack ==
  /\ ~Covered
  /\ AnalysisPanelRendered
  /\ ~ui.optimizing
  /\ ui' = [ui EXCEPT !.analysisMode = FALSE]
  /\ UNCHANGED <<now, runs, selectedOsmIds, callVars, panel>>

\* Back to Impact View (741)
onBackToAnalysis ==
  /\ ~Covered
  /\ OptimizationPanelRendered
  /\ ui' = [ui EXCEPT !.optimizationResults = NoResults]
  /\ UNCHANGED <<now, runs, selectedOsmIds, callVars, panel>>

\* clock readings at which the host may deliver the next animation frame
FrameTimes(run) ==
  { t \in { run.start + k : k \in 0..SmallSteps } \cup
          { now, run.start + run.duration \div 2, run.start + run.duration - 1,
            run.start + run.duration, run.start + run.duration + FrameLate } :
      t >= now }

\* clock readings at which the host may run a pending setTimeout callback
TimerTimes(run) == { Max(now, run.due + k) : k \in TimerSlack }

\* an animation frame of run r at clock reading t
Frame(r, t) ==
  /\ runs[r].pc = "raf"
  /\ \E st \in { step([ui |-> ui, run |-> runs[r]], t) } :
        /\ ui' = st.ui
        /\ runs' = [runs EXCEPT ![r] = st.run]
  /\ now' = t
  /\ UNCHANGED <<selectedOsmIds, callVars, panel>>

\* the timer of run r expires at clock reading t
Timer(r, t) ==
  /\ runs[r].pc = "timer"
  /\ \E st \in { next([ui |-> ui, run |-> runs[r]], t) } :
        /\ ui' = st.ui
        /\ runs' = [runs EXCEPT ![r] = st.run]
  /\ now' = t
  /\ UNCHANGED <<selectedOsmIds, callVars, panel>>

Next ==
  \/ \E id \in OsmIds : onRoadClick(id)
  \/ \E id \in OsmIds : RemoveRow(id)
  \/ Clear
  \/ AnalyzeTraffic
  \/ CloseSimModal
  \/ ClickStartSimulation
  \/ ClickOptimize
  \/ onBack
  \/ onBackToAnalysis
  \/ \E r \in 1..Len(runs) : \E t \in FrameTimes(runs[r]) : Frame(r, t)
  \/ \E r \in 1..Len(runs) : \E t \in TimerTimes(runs[r]) : Timer(r, t)

Spec == Init /\ [][Next]_vars

\* the host keeps delivering frames with an advancing clock, and timer expiries
FrameAdvance(r) ==
  /\ r <= Len(runs)
  /\ \E t \in FrameTimes(runs[r]) : t > now /\ Frame(r, t)

TimerFires(r) ==
  /\ r <= Len(runs)
  /\ \E t \in TimerTimes(runs[r]) : Timer(r, t)

FairSpec ==
  Spec /\ \A r \in 1..MaxRuns : WF_vars(FrameAdvance(r)) /\ WF_vars(TimerFires(r))

\* ------------------------------------------------------------------------
\* Calls of computeImpactStats: the summary is a React.useMemo of catalog and
\* selection (TrafficClosure_UI.jsx 497), recomputed when either changes.
\* earlier keeps one call that was made before, to compare later calls with.
\* ------------------------------------------------------------------------
Summarise(geojson, selectedIds) ==
  \E res \in { computeImpactStats(geojson, selectedIds, call.scope) } :
    call' = [ geojson |-> geojson, selectedIds |-> selectedIds,
              stats |-> res.stats, scope |-> res.scope ]

Recompute(geojson, selectedIds) ==
  /\ Summarise(geojson, selectedIds)
  /\ earlier' \in IF earlier = NoEarlier /\ call.stats # NoStats
                  THEN {NoEarlier, <<call>>} ELSE {earlier}

\* a catalog arrives (setOsmBboxGeoJSON, 275)
setOsmBboxGeoJSON(gj) ==
  /\ Recompute(gj, call.selectedIds)
  /\ UNCHANGED <<sessionVars, panel>>

\* a way enters or leaves the selection (setSelectedOsmIds, 398-403)
setSelectedOsmIds(id) ==
  /\ Recompute(call.geojson,
               SetOf(Toggle(IF call.selectedIds = NoSelection THEN << >>
                            ELSE call.selectedIds[1], id)))
  /\ UNCHANGED <<sessionVars, panel>>

\* a caller passes no selection at all
callWithoutSelection ==
  /\ call.selectedIds # NoSelection
  /\ Recompute(call.geojson, NoSelection)
  /\ UNCHANGED <<sessionVars, panel>>

ImpactNext ==
  \/ \E gj \in Catalogs : setOsmBboxGeoJSON(gj)
  \/ \E id \in OsmIds : setSelectedOsmIds(id)
  \/ callWithoutSelection

ImpactSpec == Init /\ [][ImpactNext]_vars

\* ------------------------------------------------------------------------
\* The runner under a caller that, once a way is selected, may call
\* startSimulation at any time, not only through the Start simulation button
\* ------------------------------------------------------------------------
CallerNext ==
  \/ Len(runs) = 0 /\ onRoadClick(IdA)
  \/ startSimulation
  \/ \E r \in 1..Len(runs) : \E t \in FrameTimes(runs[r]) : Frame(r, t)
  \/ \E r \in 1..Len(runs) : \E t \in TimerTimes(runs[r]) : Timer(r, t)

CallerSpec == Init /\ [][CallerNext]_vars

\* ---- startOptimization called by any caller, with or without a closure
\* result, once no simulation run is under way ----
OptCallerNext ==
  \/ Len(runs) = 0 /\ onRoadClick(IdA)
  \/ Len(runs) = 0 /\ startSimulation
  \/ (\A k \in 1..Len(runs) : runs[k].kind = "sim" => runs[k].pc = "done")
       /\ startOptimization
  \/ \E r \in 1..Len(runs) : \E t \in FrameTimes(runs[r]) : Frame(r, t)
  \/ \E r \in 1..Len(runs) : \E t \in TimerTimes(runs[r]) : Timer(r, t)

OptCallerSpec == Init /\ [][OptCallerNext]_vars
\* ---- the same ways, some of them longer ----
LongestWay == 6000
Stretches == {1500}

lengthenFeature(features, id, by) ==
  [ i \in 1..Len(features) |->
      IF features[i].osm_id = id
      THEN [features[i] EXCEPT !.length_km = @ + by]
      ELSE features[i] ]

\* the catalog is loaded once
loadCatalog(gj) ==
  /\ call.geojson = NoGeoJSON
  /\ Summarise(gj, call.selectedIds)
  /\ UNCHANGED <<earlier, sessionVars, panel>>

select(id) ==
  /\ Summarise(call.geojson, SetOf(Toggle(call.selectedIds[1], id)))
  /\ UNCHANGED <<earlier, sessionVars, panel>>

\* a fresh parse of the same ways in which way id is longer
lengthen(id, by) ==
  /\ call.geojson # NoGeoJSON
  /\ \E i \in 1..Len(call.geojson[1].features) :
       /\ call.geojson[1].features[i].osm_id = id
       /\ call.geojson[1].features[i].length_km + by <= LongestWay
  /\ Summarise(GeoJSON(lengthenFeature(call.geojson[1].features, id, by)),
               call.selectedIds)
  /\ UNCHANGED <<earlier, sessionVars, panel>>

StretchNext ==
  \/ \E gj \in Catalogs : loadCatalog(gj)
  \/ \E id \in OsmIds : select(id)
  \/ \E id \in OsmIds, by \in Stretches : lengthen(id, by)

StretchSpec == Init /\ [][StretchNext]_vars
\* ---- the panels given results ----
Factors == { <<1, 2>>, <<1003, 1000>>, <<1005, 1000>>, <<2, 1>> }
OverriddenKeys == {"avgSpeedKmh", "vkt", "pm25"}
BeforeValues == {0, 10000}
AfterValues == {0, 5, 500, 15000}

uniform(snapshot, f) == [ k \in Metrics |-> RatMul(snapshot[k], f[1], f[2]) ]

\* the closure result, the optimization result made of it (581), and results
\* whose after is a multiple of before
BaseResults ==
  { [before |-> before, after |-> after],
    [before |-> after, after |-> optimized(after)] }
  \cup { [before |-> before, after |-> uniform(before, f)] : f \in Factors }

\* results with one metric replaced in both snapshots
PanelResults ==
  { << r >> : r \in BaseResults }
  \cup { << [ before |-> [r.before EXCEPT ![k] = Q(b, 1)],
              after |-> [r.after EXCEPT ![k] = Q(a, 1)] ] >> :
           r \in BaseResults, k \in OverriddenKeys,
           b \in BeforeValues, a \in AfterValues }
  \cup { NoResults }

showAnalysis(results) ==
  /\ panel.component = "none"
  /\ panel' = PostClosureAnalysisPanel(results)
  /\ UNCHANGED <<sessionVars, callVars>>

showOptimization(baseResults, optimization) ==
  /\ panel.component = "none"
  /\ panel' = PostOptimizationResultsPanel(baseResults, optimization)
  /\ UNCHANGED <<sessionVars, callVars>>

unmount ==
  /\ panel.component # "none"
  /\ panel' = NoPanel
  /\ UNCHANGED <<sessionVars, callVars>>

PanelNext ==
  \/ \E results \in PanelResults : showAnalysis(results)
  \/ \E optimization \in PanelResults :
       showOptimization(<< [before |-> before, after |-> after] >>, optimization)
  \/ unmount

PanelSpec == Init /\ [][PanelNext]_vars
\* ------------------------------------------------------------------------
\* Properties of the phase runner
\* ------------------------------------------------------------------------
Runs == 1..Len(runs)
PhaseSequence == <<"baseline", "closures", NULL>>
CallerProgress(r) == IF runs[r].kind = "sim" THEN ui.simulationProgress
                     ELSE ui.optimizationProgress

\* C1: every run calls the phase callback with "baseline", "closures", null
\* in that order, three times in all once it has finished, and the last
\* progress reported before "closures" and before null is exactly 100.
C1_PhaseSequencing ==
  \A r \in Runs :
    /\ Len(runs[r].phaseCalls) <= 3
    /\ \A i \in 1..Len(runs[r].phaseCalls) : runs[r].phaseCalls[i] = PhaseSequence[i]
    /\ runs[r].pc = "done" => Len(runs[r].phaseCalls) = 3
    /\ \A i \in 2..Len(runs[r].phaseCalls) : ProgIs(runs[r].progAtPhaseCall[i], 100)

C1_Witness ==
  \E r \in Runs : runs[r].pc = "done" /\ runs[r].phaseCalls = PhaseSequence

\* C2: a supplied results callback is called exactly once per run, after the
\* closures phase has reported progress 100 and before the done callback.
C2_ResultsOnce ==
  \A r \in Runs :
    runs[r].hasResults =>
      /\ runs[r].resultsCalls <= 1
      /\ runs[r].resultsInOrder
      /\ runs[r].doneCalls > 0 => runs[r].resultsCalls = 1

C2_Witness ==
  \E r \in Runs : runs[r].hasResults /\ runs[r].resultsCalls = 1 /\ runs[r].doneCalls = 1

\* C3: the done callback is called exactly once per run, and only after the
\* phase callback got null and the progress callback then got 0.
C3_DoneOnce ==
  \A r \in Runs :
    /\ runs[r].doneCalls <= 1
    /\ runs[r].doneInOrder
    /\ Len(runs[r].phaseCalls) = 3 => runs[r].doneCalls = 1
    /\ runs[r].doneCalls = 1 => Len(runs[r].phaseCalls) = 3 /\ ProgIs(runs[r].lastProg, 0)

C3_Witness ==
  \E r \in Runs : runs[r].doneCalls = 1 /\ runs[r].kind = "opt"

\* C4: a start request made while a run is active starts nothing: at most one
\* run is between its first phase callback and its done callback, whatever
\* the order of start requests, animation frames and timers.
C4_NoOverlap ==
  Cardinality({ r \in Runs : runs[r].pc # "done" }) <= 1

\* C5: every started run eventually calls its done callback, as long as the
\* host keeps delivering frames with an advancing clock and timer expiries.
C5_RunTerminates ==
  \A r \in 1..MaxRuns : (Len(runs) >= r) ~> (Len(runs) >= r /\ runs[r].pc = "done")

C5_Witness ==
  \E r \in Runs : runs[r].pc = "done" /\ runs[r].kind = "sim"

\* C6: between two phase callbacks of a run the values given to the progress
\* callback never decrease, and each lies in [0, 100].
C6_ProgressMonotone ==
  [][ \A r \in Runs :
        /\ Len(runs'[r].phaseCalls) = Len(runs[r].phaseCalls)
        /\ runs'[r].phaseProg # NoProg
        => /\ runs'[r].phaseProg.num >= 0
           /\ runs'[r].phaseProg.num <= 100 * runs'[r].phaseProg.den
           /\ runs[r].phaseProg # NoProg
                => ProgLeq(runs[r].phaseProg, runs'[r].phaseProg) ]_vars

C6_Witness ==
  \E r \in Runs :
    /\ runs[r].name = "closures"
    /\ runs[r].phaseProg.num > 3 * runs[r].phaseProg.den
    /\ runs[r].phaseProg.num < 100 * runs[r].phaseProg.den

\* C7: when the phase callback reports "baseline" or "closures", the
\* progress last reported to the caller is 0.
C7_ProgressResetAtPhaseStart ==
  \A r \in Runs :
    (runs[r].pc = "raf" /\ runs[r].phaseProg = NoProg)
      => ProgIs(CallerProgress(r), 0)

\* ------------------------------------------------------------------------
\* Properties of computeImpactStats
\* ------------------------------------------------------------------------
Rows == IF call.stats = NoStats THEN << >> ELSE call.stats[1].rows

\* C8: every row returned by computeImpactStats has a vehiclesPerHour that is
\* an integer and is at least 40, whatever the catalog and the selection.
C8_VehiclesFloor ==
  \A i \in 1..Len(Rows) :
    /\ Rows[i].vehiclesPerHour.d = 1
    /\ Rows[i].vehiclesPerHour.n >= 40

\* an unnamed way whose base and fluctuation alone would give less than 40
C8_Witness ==
  \E i \in 1..Len(Rows) :
    /\ Rows[i].name = NoName
    /\ Rows[i].vehiclesPerHour = Rat(40, 1)
    /\ 5 * baseOf(Rows[i].highway) + 3 * fluctOf(hashId(Rows[i].id)) < 5 * 40

\* C9: within one call, two rows with distinct ids whose names are equal after
\* lowercasing and trimming, and not empty, have the same vehiclesPerHour.
C9_NameConsistency ==
  \A i, j \in 1..Len(Rows) :
    /\ Rows[i].id # Rows[j].id
    /\ norm(Rows[i].name) = norm(Rows[j].name)
    /\ norm(Rows[i].name) # << >>
    => Rows[i].vehiclesPerHour = Rows[j].vehiclesPerHour

\* two ways of different classes whose names differ only in case and spaces
C9_Witness ==
  \E i, j \in 1..Len(Rows) :
    /\ Rows[i].id # Rows[j].id
    /\ Rows[i].name # Rows[j].name
    /\ Rows[i].highway # Rows[j].highway
    /\ norm(Rows[i].name) = norm(Rows[j].name)
    /\ norm(Rows[i].name) # << >>
    /\ Rows[i].vehiclesPerHour = Rows[j].vehiclesPerHour

\* C10: a call with the same catalog and the same selection, in the same
\* insertion order, as a call made earlier returns the same rows with the
\* same vehiclesPerHour, impactScore and category, whatever was called between.
SameInputs == /\ earlier # NoEarlier
              /\ earlier[1].geojson = call.geojson
              /\ earlier[1].selectedIds = call.selectedIds

C10_Deterministic ==
  SameInputs =>
    LET was == earlier[1].stats[1].rows
    IN /\ call.stats # NoStats
       /\ Len(Rows) = Len(was)
       /\ \A i \in 1..Len(Rows) :
            /\ Rows[i].id = was[i].id
            /\ Rows[i].vehiclesPerHour = was[i].vehiclesPerHour
            /\ Rows[i].impactScore = was[i].impactScore
            /\ Rows[i].category = was[i].category

\* the same two-row selection summarised again after other calls
C10_Witness ==
  /\ SameInputs
  /\ Len(Rows) = 2
  /\ call.stats = earlier[1].stats

\* C11: every row of class footway has category non-impactful, also when its
\* name is one of the landmark names that force extreme.
C11_FootwayOverride ==
  \A i \in 1..Len(Rows) :
    Rows[i].highway = "footway" => Rows[i].category = "non-impactful"

\* a footway named after a landmark has been summarised
C11_Witness ==
  \E i \in 1..Len(Rows) :
    /\ Rows[i].highway = "footway"
    /\ toLowerCase(Rows[i].name) \in forceExtremeNames
    /\ Rows[i].category = "non-impactful"

Rank(category) ==
  CASE category = "non-impactful" -> 0
    [] category = "low" -> 1
    [] category = "impactful" -> 2
    [] category = "very" -> 3
    [] category = "extreme" -> 4

\* both summaries are of the same ways, selected in the same order, and no way
\* is shorter in the second
OnlyLonger(c, d) ==
  /\ c.stats # NoStats /\ d.stats # NoStats
  /\ c.selectedIds = d.selectedIds
  /\ Len(c.geojson[1].features) = Len(d.geojson[1].features)
  /\ \A i \in 1..Len(c.geojson[1].features) :
       LET f == c.geojson[1].features[i]
           g == d.geojson[1].features[i]
       IN /\ f.osm_id = g.osm_id /\ f.highway = g.highway /\ f.name = g.name
          /\ f.length_km <= g.length_km

\* C12: for a fixed class and name, a row's category never moves down the
\* ladder non-impactful, low, impactful, very, extreme when the way is longer,
\* the landmark, footway, residential and tertiary overrides included.
C12_CategoryMonotone ==
  [][ OnlyLonger(call, call') =>
        \A i \in 1..Len(call.stats[1].rows) :
          Rank(call.stats[1].rows[i].category)
            <= Rank(call'.stats[1].rows[i].category) ]_vars

\* a selected way has been lengthened past a threshold of the ladder: the
\* summary of the catalog as first loaded puts it in a lower category
C12_Witness ==
  \E gj \in Catalogs :
    LET base == [ geojson |-> gj, selectedIds |-> call.selectedIds,
                  stats |-> computeImpactStats(gj, call.selectedIds, NoLocals).stats ]
    IN /\ call.geojson # gj
       /\ OnlyLonger(base, call)
       /\ \E i \in 1..Len(Rows) :
            Rank(base.stats[1].rows[i].category) < Rank(Rows[i].category)

\* C13: computeImpactStats returns null when the catalog is absent, when the
\* selection is absent and when the selection is empty; in every other case it
\* returns a summary object with rows, totalKm, areaVehicles and distribution.
C13_NullGuard ==
  LET absent == \/ call.geojson = NoGeoJSON
                \/ call.selectedIds = NoSelection
                \/ Len(call.selectedIds[1]) = 0
  IN /\ absent => call.stats = NoStats
     /\ ~absent => /\ call.stats # NoStats
                   /\ DOMAIN call.stats[1] =
                        {"rows", "totalKm", "areaVehicles", "distribution"}

\* after a call that returned a summary, a call with a catalog and no
\* selection at all has returned null
C13_Witness ==
  /\ earlier # NoEarlier
  /\ earlier[1].stats # NoStats
  /\ call.geojson # NoGeoJSON
  /\ call.selectedIds = NoSelection
  /\ call.stats = NoStats

\* the selected ids that the catalog of a call holds, in selection order
Known(c) ==
  SelectSeq(c.selectedIds[1],
            LAMBDA id : \E k \in 1..Len(c.geojson[1].features) :
                          c.geojson[1].features[k].osm_id = id)

MetresOf(c, id) ==
  LET k == CHOOSE k \in 1..Len(c.geojson[1].features) :
             c.geojson[1].features[k].osm_id = id
  IN c.geojson[1].features[k].length_km

SumSeq(s) ==
  LET acc[i \in 0..Len(s)] == IF i = 0 THEN 0 ELSE acc[i - 1] + s[i]
  IN acc[Len(s)]

\* C14: a selected id that the catalog does not hold is skipped: the rows are
\* exactly the selected ids present in the catalog, and totalKm, the vehicle
\* sum behind areaVehicles and the distribution count only those; a non-empty
\* selection none of whose ids is in the catalog gives a summary with no rows.
C14_UnknownIdsSkipped ==
  call.stats # NoStats =>
    LET known == Known(call)
        s == call.stats[1]
    IN /\ [ i \in 1..Len(Rows) |-> Rows[i].id ] = known
       /\ s.totalKm = SumSeq([ i \in 1..Len(known) |-> MetresOf(call, known[i]) ])
       /\ s.areaVehicles =
            (27 * SumSeq([ i \in 1..Len(Rows) |-> Rows[i].vehiclesPerHour.n ])
               + 10010) \div 20
       /\ SumSeq([ i \in 1..Len(Rows) |->
                     IF Rows[i].category \in DOMAIN s.distribution /\
                        \A j \in 1..(i - 1) : Rows[j].category # Rows[i].category
                     THEN s.distribution[Rows[i].category] ELSE 0 ]) = Len(Rows)
       /\ \A c \in DOMAIN s.distribution : \E i \in 1..Len(Rows) : Rows[i].category = c
       /\ known = << >> => /\ Rows = << >>
                           /\ s.totalKm = 0
                           /\ s.areaVehicles = 500

\* a selection of one unknown id was summarised with no rows, and after a
\* known id joined it the summary has the one row
C14_Witness ==
  /\ earlier # NoEarlier
  /\ earlier[1].stats # NoStats
  /\ earlier[1].stats[1].rows = << >>
  /\ earlier[1].geojson = call.geojson
  /\ call.stats # NoStats
  /\ Len(call.selectedIds[1]) = 2
  /\ Len(Rows) = 1

\* ------------------------------------------------------------------------
\* Properties of the KPI panels
\* ------------------------------------------------------------------------
PanelRows == { panel.rows[i] : i \in 1..Len(panel.rows) }
PercentOf(r) == IF "pct" \in DOMAIN r THEN r.pct ELSE r.change

\* C15: in the closure panel and in the optimization panel the percent change
\* of a row is (after - before) / before * 100 when before is not 0 and
\* (after - before) * 100 when before is 0; it is a finite number, and
\* before = 0 with after = 5 gives 500.
C15_PercentChange ==
  \A r \in PanelRows :
    LET c == PercentOf(r)
        hundredfold == QMul(QSub(r.after, r.before), Q(100, 1))
    IN /\ c.d > 0
       /\ r.before.n # 0 => QMul(c, r.before) = hundredfold
       /\ r.before.n = 0 => c = hundredfold
       /\ (r.before = Q(0, 1) /\ r.after = Q(5, 1)) => c = Q(500, 1)

\* a row with before 0 and after 5 is on screen, showing 500
C15_Witness ==
  \E r \in PanelRows :
    /\ r.before = Q(0, 1)
    /\ r.after = Q(5, 1)
    /\ PercentOf(r) = Q(500, 1)

\* C16: whatever the snapshots and however large the percent changes, the
\* optimization score and the closure impact score lie in [0, 100].
C16_ScoreBounds ==
  panel.score # << >> =>
    /\ ~QLess(panel.score[1], Q(0, 1))
    /\ ~QLess(Q(100, 1), panel.score[1])

\* a score sits on a bound while a row changed by more than 100 percent
C16_Witness ==
  /\ panel.score # << >>
  /\ panel.score[1] \in {Q(0, 1), Q(100, 1)}
  /\ \E r \in PanelRows : QLess(Q(100, 1), QAbs(PercentOf(r)))

\* C18: every row of the optimization comparison is exactly one of improved,
\* worsened and neutral: neutral iff |pct| < 0.4; otherwise improved when the
\* metric is higher-is-better and after > before, lower-is-better and
\* after < before, or context-dependent and |after - before| < |before|;
\* otherwise worsened. The three counts add up to the number of metrics.
C18_ExactlyOneClass ==
  panel.component = "PostOptimizationResultsPanel" /\ panel.rows # << >> =>
    /\ \A r \in PanelRows :
         LET small == QLess(QAbs(r.pct), Q(2, 5))
             good == \/ r.better = "higher" /\ QLess(r.before, r.after)
                     \/ r.better = "lower" /\ QLess(r.after, r.before)
                     \/ /\ r.better = "depends"
                        /\ QLess(QAbs(QSub(r.after, r.before)), QAbs(r.before))
         IN /\ Cardinality({ f \in {"improved", "worsened", "neutral"} : r[f] }) = 1
            /\ r.neutral <=> small
            /\ ~small => (r.improved <=> good)
            /\ (~small /\ ~good) => r.worsened
    /\ Len(panel.rows) = Len(METRICS)
    /\ panel.counts[1].improvedCount + panel.counts[1].worsenedCount
         + panel.counts[1].neutralCount = Len(METRICS)

\* an optimization comparison with rows of all three classes is on screen
C18_Witness ==
  /\ panel.component = "PostOptimizationResultsPanel"
  /\ panel.counts # << >>
  /\ panel.counts[1].improvedCount > 0
  /\ panel.counts[1].worsenedCount > 0
  /\ panel.counts[1].neutralCount > 0

\* C17: the result delivered at the end of a closure run has
\* before.avgSpeedKmh = 34.5, after.avgSpeedKmh = 34.5 * 0.96 = 33.12 and
\* after.avgDelayMin = before.avgDelayMin * 1.15, and the avgSpeedKmh row,
\* higher-is-better with after < before, is classified as worsened.
C17_ClosureResult ==
  ui.simulationResults # NoResults =>
    LET r == ui.simulationResults[1]
        speed == optRow(METRICS[5], r.before, r.after)
    IN /\ r.before.avgSpeedKmh = Rat(345, 10)
       /\ r.after.avgSpeedKmh = Rat(3312, 100)
       /\ r.after.avgDelayMin = RatMul(r.before.avgDelayMin, 115, 100)
       /\ speed.key = "avgSpeedKmh"
       /\ speed.worsened

IdsOf(c) == { c.selectedIds[1][i] : i \in 1..Len(c.selectedIds[1]) }

\* C19: for a fixed catalog, two selections holding the same ids inserted in
\* different orders give every id the same row (vehiclesPerHour, share,
\* impactScore, category) and the same totalKm, areaVehicles and distribution.
C19_OrderIndependent ==
  ( /\ earlier # NoEarlier
    /\ call.stats # NoStats
    /\ earlier[1].geojson = call.geojson
    /\ IdsOf(earlier[1]) = IdsOf(call) ) =>
    LET was == earlier[1].stats[1]
        is == call.stats[1]
    IN /\ { was.rows[i] : i \in 1..Len(was.rows) } = { is.rows[i] : i \in 1..Len(is.rows) }
       /\ was.totalKm = is.totalKm
       /\ was.areaVehicles = is.areaVehicles
       /\ was.distribution = is.distribution

\* every row the optimization comparison can show for the results considered
AllOptRows ==
  { optRow(METRICS[i], o[1].before, o[1].after) :
      i \in 1..Len(METRICS), o \in PanelResults \ {NoResults} }

\* C20: the classification of a row depends on its percent change, its
\* directionality and the neutral threshold alone: two rows with the same
\* directionality and the same percent change have the same classification,
\* whatever their before and after values.
C20_ClassByPercent ==
  panel.component = "PostOptimizationResultsPanel" =>
    \A r \in PanelRows, s \in AllOptRows :
      (s.better = r.better /\ s.pct = r.pct) =>
        /\ s.improved = r.improved
        /\ s.neutral = r.neutral
        /\ s.worsened = r.worsened

\* Math.round of n/d for n >= 0: halves go up
RoundOf(n, d) == (2 * n + d) \div (2 * d)

\* C21: every returned row has vehiclesPerHour = max(40, round(base +
\* fluctuation)), base being the table volume of the row's own class (300 for
\* a class not in the table) and fluctuation (hash mod 400) - 200 times 0.5 for
\* the hash of the normalized name, times 0.6 for the hash of the id.
C21_VehiclesFormula ==
  \A i \in 1..Len(Rows) :
    LET r == Rows[i]
        n == norm(r.name)
        base == baseOf(r.highway)
        expected == IF n # << >>
                    THEN RoundOf(2 * base + fluctOf(hashId(n)), 2)
                    ELSE RoundOf(5 * base + 3 * fluctOf(hashId(r.id)), 5)
    IN r.vehiclesPerHour = Rat(Max(40, expected), 1)

\* impactScore < T, decided exactly
ScoreBelow(s, T) == BigLess(ScoreNum(s), MulPow(ScoreDen(s), T, 20))

\* rows that are neither landmarks (by the test of line 103) nor footways
PlainRows ==
  { i \in 1..Len(Rows) :
      /\ toLowerCase(Rows[i].name) \notin forceExtremeNames
      /\ Rows[i].highway # "footway" }

\* C22: a row that is neither a landmark nor a footway is categorised by the
\* strict thresholds 130, 300, 680, 1250 on impactScore and then by the class
\* bumps: residential is never non-impactful, tertiary never non-impactful or
\* low, and a row of another class keeps the category of the thresholds.
C22_ThresholdsAndBumps ==
  \A i \in PlainRows :
    LET r == Rows[i]
        ladder == IF ScoreBelow(r.impactScore, 130) THEN "non-impactful"
                  ELSE IF ScoreBelow(r.impactScore, 300) THEN "low"
                  ELSE IF ScoreBelow(r.impactScore, 680) THEN "impactful"
                  ELSE IF ScoreBelow(r.impactScore, 1250) THEN "very"
                  ELSE "extreme"
    IN /\ r.highway = "residential" =>
            /\ r.category # "non-impactful"
            /\ r.category = (IF ladder = "non-impactful" THEN "low" ELSE ladder)
       /\ r.highway = "tertiary" =>
            /\ r.category \notin {"non-impactful", "low"}
            /\ r.category = (IF ladder \in {"non-impactful", "low"}
                              THEN "impactful" ELSE ladder)
       /\ r.highway \notin {"residential", "tertiary"} => r.category = ladder

\* a residential row under the first threshold shows low, next to nothing
\* else or to a row of another class
C22_Witness ==
  \E i \in PlainRows :
    /\ Rows[i].highway = "residential"
    /\ ScoreBelow(Rows[i].impactScore, 130)
    /\ Rows[i].category = "low"

\* C23: every row that is not a footway and whose normalized name (lowercased
\* and trimmed, as for the name hash) is one of the landmark names has
\* category extreme, whatever its impactScore.
C23_LandmarkExtreme ==
  \A i \in 1..Len(Rows) :
    (Rows[i].highway # "footway" /\ norm(Rows[i].name) \in forceExtremeNames)
      => Rows[i].category = "extreme"

\* what one row adds to the optimization score, as the claim states it
Magnitude(r) == IF QLess(Q(12, 1), QAbs(r.pct)) THEN Q(12, 1) ELSE QAbs(r.pct)
Contribution(r) ==
  IF r.improved THEN QMul(Magnitude(r), Q(11, 20))
  ELSE IF r.worsened THEN QNeg(QMul(Magnitude(r), Q(3, 4)))
  ELSE QNeg(Q(3, 20))

\* C24: the optimization score is 52 plus, over the rows, +min(12, |pct|) * 0.55
\* for an improved row, -min(12, |pct|) * 0.75 for a worsened row and -0.15 for
\* a neutral row, clamped to [0, 100]; a worsened row lowers the unclamped sum
\* by more than an improved row of the same magnitude raises it.
C24_OptimizationScore ==
  (panel.component = "PostOptimizationResultsPanel" /\ panel.score # << >>) =>
    LET sum[i \in 0..Len(panel.rows)] ==
          IF i = 0 THEN Q(52, 1)
          ELSE QAdd(sum[i - 1], Contribution(panel.rows[i]))
        total == sum[Len(panel.rows)]
    IN /\ panel.score[1] =
            (IF QLess(total, Q(0, 1)) THEN Q(0, 1)
             ELSE IF QLess(Q(100, 1), total) THEN Q(100, 1) ELSE total)
       /\ \A w \in PanelRows, g \in PanelRows :
            (w.worsened /\ g.improved /\ Magnitude(w) = Magnitude(g)) =>
              QLess(Contribution(g), QNeg(Contribution(w)))

\* an improved and a worsened row of the same magnitude are on screen and the
\* score is inside the bounds
C24_Witness ==
  /\ panel.component = "PostOptimizationResultsPanel"
  /\ panel.score # << >>
  /\ QLess(Q(0, 1), panel.score[1]) /\ QLess(panel.score[1], Q(100, 1))
  /\ \E w \in PanelRows, g \in PanelRows :
       w.worsened /\ g.improved /\ Magnitude(w) = Magnitude(g)

\* C25: in the closure impact score every directional metric contributes with
\* the sign of its outcome: a lower-is-better metric that rose or a
\* higher-is-better metric that fell contributes at most 0, and one that got
\* better contributes at least 0.
C25_ContributionSign ==
  panel.component = "PostClosureAnalysisPanel" =>
    \A r \in PanelRows :
      (r.key \in keys /\ r.better \in {"higher", "lower"}) =>
        LET rose == QLess(r.before, r.after)
            fell == QLess(r.after, r.before)
            worse == (r.better = "lower" /\ rose) \/ (r.better = "higher" /\ fell)
            improved == (r.better = "lower" /\ fell) \/ (r.better = "higher" /\ rose)
        IN /\ worse => ~QLess(Q(0, 1), contribution(r))
           /\ improved => ~QLess(contribution(r), Q(0, 1))

\* C26: when an optimization run publishes its result, the result's before
\* snapshot is the after snapshot of the closure result held when the
\* optimization was started, the optimized snapshot is a separate copy, and no
\* step of the optimization run changes the closure result.
C26_OptimizationFrame ==
  [][ \A k \in 1..Len(runs) :
        (runs[k].kind = "opt" /\ runs'[k] # runs[k]) =>
          /\ ui'.simulationResults = ui.simulationResults
          /\ (runs'[k].resultsCalls > runs[k].resultsCalls
                /\ runs[k].captured # NoResults) =>
               /\ ui'.optimizationResults # NoResults
               /\ ui'.optimizationResults[1].before = runs[k].captured[1].after
               /\ ui'.simulationResults = runs[k].captured
               /\ ui'.optimizationResults[1].after # ui'.optimizationResults[1].before
    ]_vars

\* an optimization run started with a closure result has published its result
C26_Witness ==
  \E k \in Runs :
    /\ runs[k].kind = "opt"
    /\ runs[k].resultsCalls = 1
    /\ runs[k].captured # NoResults
    /\ ui.optimizationResults # NoResults
    /\ ui.optimizationResults[1].before = ui.simulationResults[1].after

\* C27: after "Modify Selection" is chosen in analysis mode the session no
\* longer holds the previous closure result.
C27_ModifyDiscardsResult ==
  [][ (ui.analysisMode /\ ~ui'.analysisMode) => ui'.simulationResults = NoResults ]_vars

\* C28: while the session is in analysis mode no step changes the selection,
\* so the selected ids on leaving analysis mode are those on entering it.
C28_SelectionFrozen ==
  [][ ui.analysisMode => selectedOsmIds' = selectedOsmIds ]_vars

\* the session has been through analysis mode and has left it by Modify
\* Selection, the selection still in place
C28_Witness ==
  /\ ~ui.analysisMode
  /\ ui.simulationResults # NoResults
  /\ \A k \in Runs : runs[k].pc = "done"
  /\ Len(selectedOsmIds) > 0

\* C29: in every reachable session state analysis mode implies that a closure
\* result is held, and a held optimization result implies analysis mode and a
\* held closure result.
C29_ModesImplyResults ==
  /\ ui.analysisMode => ui.simulationResults # NoResults
  /\ ui.optimizationResults # NoResults =>
       (ui.analysisMode /\ ui.simulationResults # NoResults)

\* the session holds an optimization result
C29_Witness ==
  /\ ui.optimizationResults # NoResults
  /\ ui.analysisMode
  /\ ui.simulationResults # NoResults

ActiveOpt == { k \in Runs : runs[k].kind = "opt" /\ runs[k].pc # "done" }

\* C30: at most one optimization run is active at a time; the optimizing flag
\* is set exactly while one is active; and once an optimization run has ended
\* the flag is cleared, the optimization phase is null and its progress is 0,
\* also for a run started without a closure result, which publishes nothing.
C30_OneOptimization ==
  /\ Cardinality(ActiveOpt) <= 1
  /\ ui.optimizing <=> ActiveOpt # {}
  /\ (ActiveOpt = {} /\ \E k \in Runs : runs[k].kind = "opt") =>
       /\ ui.optimizationPhase = NULL
       /\ ProgIs(ui.optimizationProgress, 0)
  /\ \A k \in Runs :
       (runs[k].kind = "opt" /\ runs[k].pc = "done") => runs[k].doneCalls = 1
  /\ (\A k \in Runs : runs[k].kind = "opt" => runs[k].captured = NoResults)
       => ui.optimizationResults = NoResults

\* an optimization run started without a closure result has ended, and the
\* next one is under way
C30_Witness ==
  /\ Len(runs) = 2
  /\ runs[1].kind = "opt" /\ runs[1].pc = "done" /\ runs[1].captured = NoResults
  /\ runs[1].resultsCalls = 1
  /\ runs[2].kind = "opt" /\ runs[2].pc # "done"
  /\ ui.optimizing
  /\ ui.optimizationResults = NoResults

====
